---- MODULE Spec2Model ----
(***************************************************************************)
(* Webhook-driven subscription reconciliation of the nappio backend:       *)
(* api/main.py (stripe_webhook, create_checkout_session),                  *)
(* payment_serv/webhook_handlers.py (router and handlers),                 *)
(* payment_serv/payment_processor.py (create_stripe_checkout_session),     *)
(* ios/io_db.py (store calls), email_serv/email_processor.py (mail).       *)
(*                                                                         *)
(* Identifiers are numbers: session_id k stands for "cs_k", customer_id k  *)
(* for "cus_k", subscription_id k for "sub_k".  A timestamp is a positive  *)
(* integer; a payload field that is null is 0, which Python's truth test   *)
(* treats like None.  A stored date is NULL or isoformat(t).  A newsletter  *)
(* email address k is the number k.                                        *)
(***************************************************************************)
EXTENDS Integers, Sequences, FiniteSets, TLC

\* ---------------------------------------------------------------- bounds
MaxCustomers == 2
MaxSessions == 1
MaxSubs == 1
MaxSubRows == 2
MaxTime == 2
MaxAddresses == 3

\* ------------------------------------------------------------- constants
Users == {"u1", "u2"}
Prices == {"price_1"}
SubStatuses == {"active", "canceled"}
NULL == <<>>

VARIABLES
    checkout_sessions,   \* store table: sequence of rows, in insertion order
    user_subscriptions,  \* store table: sequence of rows, in insertion order
    sub_id_unique,       \* whether the table rejects a second row with the same subscription_id
    emails,              \* mails accepted by the mail API, in order
    prov_customers,      \* billing provider: number of customers created
    prov_sessions,       \* billing provider: checkout sessions, by session_id
    prov_subs,           \* billing provider: subscriptions, by subscription_id
    last,                \* the last request served and its answer
    inflight,            \* requests another worker is part-way through
    landed,              \* per subscription_id: statuses of the last two store writes
    redelivery,          \* billing provider: state of each subscription's created delivery
    newsletter_subscribers  \* store table: sequence of rows, in insertion order

vars == <<checkout_sessions, user_subscriptions, sub_id_unique, emails,
          prov_customers, prov_sessions, prov_subs, last,
          inflight, landed, redelivery, newsletter_subscribers>>

\* what only the step-wise specifications change
worker_vars == <<inflight, landed, redelivery>>

\* ------------------------------------------------------------ conversions
\* datetime.fromtimestamp(t).isoformat()
isoformat(t) == <<t>>

\* the user profile the identity provider holds for user_id
EmailOf(u) == [addr |-> u, domain |-> "example.com"]

\* Matching with the .eq() filter lost: every row matches
Matching_unfiltered(table, col, v) == 1..Len(table)

\* rows of a table matching on one column: table.select/update ... .eq(col, v)
Matching(table, col, v) == {i \in 1..Len(table) : table[i][col] = v}

First(S) == CHOOSE i \in S : \A j \in S : i <= j

\* ------------------------------------------------------------ store calls
\* insert_checkout_session: plain insert, status defaults to "pending"
insert_checkout_session(cs, session_id, user_id, customer_id, price_id) ==
    Append(cs, [session_id |-> session_id, user_id |-> user_id,
                customer_id |-> customer_id, price_id |-> price_id,
                status |-> "pending"])

\* update_checkout_session as an upsert: a row is created when none matches
update_checkout_session_upsert(cs, session_id, status) ==
    IF \E i \in 1..Len(cs) : cs[i].session_id = session_id
    THEN [i \in 1..Len(cs) |->
            IF cs[i].session_id = session_id THEN [cs[i] EXCEPT !.status = status]
            ELSE cs[i]]
    ELSE Append(cs, [session_id |-> session_id, user_id |-> "", customer_id |-> 0,
                     price_id |-> "", status |-> status])

\* update_checkout_session: update status of every row with that session_id
update_checkout_session(cs, session_id, status) ==
    [i \in 1..Len(cs) |->
        IF cs[i].session_id = session_id THEN [cs[i] EXCEPT !.status = status]
        ELSE cs[i]]

\* insert_user_subscription: resolves user_id from checkout_sessions by
\* customer_id, then inserts.  Result: [raised, us].
insert_user_subscription(cs, us, unique, plan_id, price_id, customer_id, subscription_id, status, subscribed_at, last_payment_date, next_payment_date) ==
    LET found == Matching(cs, "customer_id", customer_id) IN
    IF found = {} THEN [raised |-> TRUE, us |-> us]
    ELSE IF unique /\ Matching(us, "subscription_id", subscription_id) # {}
    THEN [raised |-> TRUE, us |-> us]
    ELSE [raised |-> FALSE,
          us |-> Append(us, [user_id |-> cs[First(found)].user_id,
                             plan_id |-> plan_id,
                             price_id |-> price_id,
                             customer_id |-> customer_id,
                             subscription_id |-> subscription_id,
                             status |-> status,
                             subscribed_at |-> isoformat(subscribed_at),
                             last_payment_date |-> isoformat(last_payment_date),
                             next_payment_date |-> isoformat(next_payment_date),
                             cancelled_at |-> NULL])]

\* update_user_subscription leaving cancelled_at out of the update
update_user_subscription_status_only(us, subscription_id, status, last_payment_date, next_payment_date, cancelled_at) ==
    [i \in 1..Len(us) |->
        IF us[i].subscription_id = subscription_id
        THEN [us[i] EXCEPT
                !.status = status,
                !.last_payment_date = isoformat(last_payment_date),
                !.next_payment_date = isoformat(next_payment_date)]
        ELSE us[i]]

\* update_user_subscription always sending cancelled_at, null included
update_user_subscription_clearing(us, subscription_id, status, last_payment_date, next_payment_date, cancelled_at) ==
    [i \in 1..Len(us) |->
        IF us[i].subscription_id = subscription_id
        THEN [us[i] EXCEPT
                !.status = status,
                !.cancelled_at = cancelled_at,
                !.last_payment_date = isoformat(last_payment_date),
                !.next_payment_date = isoformat(next_payment_date)]
        ELSE us[i]]

\* update_user_subscription removing the row of a canceled subscription
update_user_subscription_deleting(us, subscription_id, status, last_payment_date, next_payment_date, cancelled_at) ==
    IF status = "canceled"
    THEN SelectSeq(us, LAMBDA r : r.subscription_id # subscription_id)
    ELSE [i \in 1..Len(us) |->
            IF us[i].subscription_id = subscription_id
            THEN [us[i] EXCEPT
                    !.status = status,
                    !.cancelled_at = IF cancelled_at # NULL THEN cancelled_at ELSE @,
                    !.last_payment_date = isoformat(last_payment_date),
                    !.next_payment_date = isoformat(next_payment_date)]
            ELSE us[i]]

\* update_user_subscription refusing to write over a canceled row
update_user_subscription_terminal(us, subscription_id, status, last_payment_date, next_payment_date, cancelled_at) ==
    [i \in 1..Len(us) |->
        IF us[i].subscription_id = subscription_id /\ us[i].status # "canceled"
        THEN [us[i] EXCEPT
                !.status = status,
                !.cancelled_at = IF cancelled_at # NULL THEN cancelled_at ELSE @,
                !.last_payment_date = isoformat(last_payment_date),
                !.next_payment_date = isoformat(next_payment_date)]
        ELSE us[i]]

\* update_user_subscription clearing cancelled_at when the subscription is active again
update_user_subscription_resetting(us, subscription_id, status, last_payment_date, next_payment_date, cancelled_at) ==
    [i \in 1..Len(us) |->
        IF us[i].subscription_id = subscription_id
        THEN [us[i] EXCEPT
                !.status = status,
                !.cancelled_at = IF cancelled_at # NULL THEN cancelled_at
                                 ELSE IF status = "active" THEN NULL ELSE @,
                !.last_payment_date = isoformat(last_payment_date),
                !.next_payment_date = isoformat(next_payment_date)]
        ELSE us[i]]

\* update_user_subscription with the .eq() filter lost: every row is written
update_user_subscription_unfiltered(us, subscription_id, status, last_payment_date, next_payment_date, cancelled_at) ==
    [i \in 1..Len(us) |->
        [us[i] EXCEPT
            !.status = status,
            !.cancelled_at = IF cancelled_at # NULL THEN cancelled_at ELSE @,
            !.last_payment_date = isoformat(last_payment_date),
            !.next_payment_date = isoformat(next_payment_date)]]

\* update_user_subscription: cancelled_at is an isoformat value or NULL
update_user_subscription(us, subscription_id, status, last_payment_date, next_payment_date, cancelled_at) ==
    [i \in 1..Len(us) |->
        IF us[i].subscription_id = subscription_id
        THEN [us[i] EXCEPT
                !.status = status,
                !.cancelled_at = IF cancelled_at # NULL THEN cancelled_at ELSE @,
                !.last_payment_date = isoformat(last_payment_date),
                !.next_payment_date = isoformat(next_payment_date)]
        ELSE us[i]]

\* send_new_subscription_email never reaching the mail API
send_new_subscription_email_unsent(mails, to_email, first_name, for_sub, outcome) ==
    mails

\* --------------------------------------------------------------- mail API
\* send_new_subscription_email: every failure is caught and turned into a
\* returned dict; the mail is delivered only when the API answers '202'.
\* for_sub is bookkeeping (the dispatch the mail belongs to), not mail content.
send_new_subscription_email(mails, to_email, first_name, for_sub, outcome) ==
    IF outcome = "202"
    THEN Append(mails, [to |-> to_email, first_name |-> first_name, for_sub |-> for_sub])
    ELSE mails

\* ---------------------------------------------------------------- handlers
\* A handler's result: whether it raised, the tables and mails it leaves,
\* the status the provider reported at re-fetch ("" when nothing was fetched).
Result(raised, cs, us, mails, fetched) ==
    [raised |-> raised, cs |-> cs, us |-> us, mails |-> mails, fetched |-> fetched]

\* handle_checkout_completed writing the data model's literal "completed"
\* instead of the status it fetched
handle_checkout_completed_literal(event, cs, us, mails, psessions, x) ==
    IF ~x.retrieve_ok \/ event.id \notin 1..Len(psessions)
    THEN Result(TRUE, cs, us, mails, "")
    ELSE LET session == psessions[event.id] IN
         Result(FALSE, update_checkout_session(cs, event.id, "completed"),
                us, mails, session.status)

\* handle_checkout_completed: re-fetch the session, write its status
handle_checkout_completed(event, cs, us, mails, psessions, x) ==
    IF ~x.retrieve_ok \/ event.id \notin 1..Len(psessions)
    THEN Result(TRUE, cs, us, mails, "")
    ELSE LET session == psessions[event.id] IN
         Result(FALSE, update_checkout_session(cs, event.id, session.status),
                us, mails, session.status)

\* handle_subscription_created falling back to an unattributed row when no
\* CheckoutSession matches the customer
handle_subscription_created_unresolved(event, cs, us, unique, mails, psubs, x) ==
    IF ~x.retrieve_ok \/ event.id \notin 1..Len(psubs)
    THEN Result(TRUE, cs, us, mails, "")
    ELSE
    LET subscription == psubs[event.id]
        found == Matching(cs, "customer_id", subscription.customer)
        row == [user_id |-> IF found = {} THEN "unknown" ELSE cs[First(found)].user_id,
                plan_id |-> "plan_1", price_id |-> subscription.price_id,
                customer_id |-> subscription.customer, subscription_id |-> event.id,
                status |-> subscription.status,
                subscribed_at |-> isoformat(subscription.created),
                last_payment_date |-> isoformat(subscription.period_start),
                next_payment_date |-> isoformat(subscription.period_start + 1),
                cancelled_at |-> NULL]
    IN Result(FALSE, cs, Append(us, row), mails, subscription.status)

\* handle_subscription_created letting a failed mail send propagate
handle_subscription_created_mail_fatal(event, cs, us, unique, mails, psubs, x) ==
    IF ~x.retrieve_ok \/ event.id \notin 1..Len(psubs)
    THEN Result(TRUE, cs, us, mails, "")
    ELSE
    LET subscription == psubs[event.id]
        found == Matching(cs, "customer_id", subscription.customer)
    IN
    IF ~x.plan_id THEN Result(TRUE, cs, us, mails, subscription.status)
    ELSE IF found = {} THEN Result(TRUE, cs, us, mails, subscription.status)
    ELSE
    LET user_id == cs[First(found)].user_id
        ins == insert_user_subscription(cs, us, unique, "plan_1",
                   subscription.price_id, subscription.customer, event.id,
                   subscription.status, subscription.created,
                   subscription.period_start, subscription.period_start + 1)
    IN
    IF ins.raised THEN Result(TRUE, cs, us, mails, subscription.status)
    ELSE IF x.user = "raise" THEN Result(TRUE, cs, ins.us, mails, subscription.status)
    ELSE IF x.user = "none" THEN Result(FALSE, cs, ins.us, mails, subscription.status)
    ELSE IF ~x.price_ok THEN Result(TRUE, cs, ins.us, mails, subscription.status)
    ELSE Result(x.mail # "202", cs, ins.us,
                send_new_subscription_email(mails, EmailOf(user_id), user_id,
                                            event.id, x.mail),
                subscription.status)

\* handle_subscription_created treating a missing user profile as fatal
handle_subscription_created_user_fatal(event, cs, us, unique, mails, psubs, x) ==
    IF ~x.retrieve_ok \/ event.id \notin 1..Len(psubs)
    THEN Result(TRUE, cs, us, mails, "")
    ELSE
    LET subscription == psubs[event.id]
        found == Matching(cs, "customer_id", subscription.customer)
    IN
    IF ~x.plan_id THEN Result(TRUE, cs, us, mails, subscription.status)
    ELSE IF found = {} THEN Result(TRUE, cs, us, mails, subscription.status)
    ELSE
    LET user_id == cs[First(found)].user_id
        ins == insert_user_subscription(cs, us, unique, "plan_1",
                   subscription.price_id, subscription.customer, event.id,
                   subscription.status, subscription.created,
                   subscription.period_start, subscription.period_start + 1)
    IN
    IF ins.raised THEN Result(TRUE, cs, us, mails, subscription.status)
    ELSE IF x.user \in {"raise", "none"} THEN Result(TRUE, cs, ins.us, mails, subscription.status)
    ELSE IF ~x.price_ok THEN Result(TRUE, cs, ins.us, mails, subscription.status)
    ELSE Result(FALSE, cs, ins.us,
                send_new_subscription_email(mails, EmailOf(user_id), user_id,
                                            event.id, x.mail),
                subscription.status)

\* handle_subscription_created sending the mail before it inserts the row
handle_subscription_created_mail_first(event, cs, us, unique, mails, psubs, x) ==
    IF ~x.retrieve_ok \/ event.id \notin 1..Len(psubs)
    THEN Result(TRUE, cs, us, mails, "")
    ELSE
    LET subscription == psubs[event.id]
        found == Matching(cs, "customer_id", subscription.customer)
    IN
    IF ~x.plan_id THEN Result(TRUE, cs, us, mails, subscription.status)
    ELSE IF found = {} THEN Result(TRUE, cs, us, mails, subscription.status)
    ELSE
    LET user_id == cs[First(found)].user_id
        sent == send_new_subscription_email(mails, EmailOf(user_id), user_id,
                                            event.id, x.mail)
        ins == insert_user_subscription(cs, us, unique, "plan_1",
                   subscription.price_id, subscription.customer, event.id,
                   subscription.status, subscription.created,
                   subscription.period_start, subscription.period_start + 1)
    IN
    IF x.user = "raise" THEN Result(TRUE, cs, us, mails, subscription.status)
    ELSE IF x.user = "none" THEN Result(FALSE, cs, us, mails, subscription.status)
    ELSE IF ~x.price_ok THEN Result(TRUE, cs, us, mails, subscription.status)
    ELSE IF ins.raised THEN Result(TRUE, cs, us, sent, subscription.status)
    ELSE Result(FALSE, cs, ins.us, sent, subscription.status)

\* handle_subscription_created undoing its insert when a later step raises
handle_subscription_created_rollback(event, cs, us, unique, mails, psubs, x) ==
    IF ~x.retrieve_ok \/ event.id \notin 1..Len(psubs)
    THEN Result(TRUE, cs, us, mails, "")
    ELSE
    LET subscription == psubs[event.id]
        found == Matching(cs, "customer_id", subscription.customer)
    IN
    IF ~x.plan_id THEN Result(TRUE, cs, us, mails, subscription.status)
    ELSE IF found = {} THEN Result(TRUE, cs, us, mails, subscription.status)
    ELSE
    LET user_id == cs[First(found)].user_id
        ins == insert_user_subscription(cs, us, unique, "plan_1",
                   subscription.price_id, subscription.customer, event.id,
                   subscription.status, subscription.created,
                   subscription.period_start, subscription.period_start + 1)
    IN
    IF ins.raised THEN Result(TRUE, cs, us, mails, subscription.status)
    ELSE IF x.user = "raise" THEN Result(TRUE, cs, us, mails, subscription.status)
    ELSE IF x.user = "none" THEN Result(FALSE, cs, ins.us, mails, subscription.status)
    ELSE IF ~x.price_ok THEN Result(TRUE, cs, us, mails, subscription.status)
    ELSE Result(FALSE, cs, ins.us,
                send_new_subscription_email(mails, EmailOf(user_id), user_id,
                                            event.id, x.mail),
                subscription.status)

\* handle_subscription_created
handle_subscription_created(event, cs, us, unique, mails, psubs, x) ==
    IF ~x.retrieve_ok \/ event.id \notin 1..Len(psubs)
    THEN Result(TRUE, cs, us, mails, "")
    ELSE
    LET subscription == psubs[event.id]
        found == Matching(cs, "customer_id", subscription.customer)
    IN
    IF ~x.plan_id THEN Result(TRUE, cs, us, mails, subscription.status)
    ELSE IF found = {} THEN Result(TRUE, cs, us, mails, subscription.status)
    ELSE
    LET user_id == cs[First(found)].user_id
        ins == insert_user_subscription(cs, us, unique, "plan_1",
                   subscription.price_id, subscription.customer, event.id,
                   subscription.status, subscription.created,
                   subscription.period_start, subscription.period_start + 1)
    IN
    IF ins.raised THEN Result(TRUE, cs, us, mails, subscription.status)
    ELSE IF x.user = "raise" THEN Result(TRUE, cs, ins.us, mails, subscription.status)
    ELSE IF x.user = "none" THEN Result(FALSE, cs, ins.us, mails, subscription.status)
    ELSE IF ~x.price_ok THEN Result(TRUE, cs, ins.us, mails, subscription.status)
    ELSE Result(FALSE, cs, ins.us,
                send_new_subscription_email(mails, EmailOf(user_id), user_id,
                                            event.id, x.mail),
                subscription.status)

\* handle_subscription_updated: the payload is the subscription; the store
\* is updated first, then the log line reads subscription.metadata['user_id']
handle_subscription_updated(event, cs, us, mails) ==
    LET updated == update_user_subscription(us, event.id, event.status,
                       event.period_start, event.period_start + 1,
                       IF event.canceled_at # 0 THEN isoformat(event.canceled_at)
                       ELSE NULL)
    IN Result(~event.meta_user, cs, updated, mails, "")

\* HandlerOf with the update handler as the fall-through branch
HandlerOf_fallthrough(type) ==
    CASE type = "checkout.session.completed" -> "handle_checkout_completed"
      [] type = "customer.subscription.created" -> "handle_subscription_created"
      [] OTHER -> "handle_subscription_updated"

\* HandlerOf without the customer.subscription.deleted branch
HandlerOf_no_deleted(type) ==
    CASE type = "checkout.session.completed" -> "handle_checkout_completed"
      [] type = "customer.subscription.created" -> "handle_subscription_created"
      [] type = "customer.subscription.updated" -> "handle_subscription_updated"
      [] OTHER -> "none"

\* webhook_router: exact match on the type; anything else is logged only
HandlerOf(type) ==
    CASE type = "checkout.session.completed" -> "handle_checkout_completed"
      [] type = "customer.subscription.created" -> "handle_subscription_created"
      [] type = "customer.subscription.updated" -> "handle_subscription_updated"
      [] type = "customer.subscription.deleted" -> "handle_subscription_updated"
      [] OTHER -> "none"

webhook_router(event, cs, us, unique, mails, psessions, psubs, x) ==
    LET h == HandlerOf(event.type) IN
    IF h = "handle_checkout_completed"
    THEN handle_checkout_completed(event, cs, us, mails, psessions, x)
    ELSE IF h = "handle_subscription_created"
    THEN handle_subscription_created(event, cs, us, unique, mails, psubs, x)
    ELSE IF h = "handle_subscription_updated"
    THEN handle_subscription_updated(event, cs, us, mails)
    ELSE Result(FALSE, cs, us, mails, "")

\* ------------------------------------------------ deliveries and outcomes
\* What one delivery carries.  Fields a type does not read are held at a
\* fixed value.
Event(sig, dec, type, id, status, period_start, canceled_at, meta_user) ==
    [sig_valid |-> sig, decodable |-> dec, type |-> type, id |-> id,
     status |-> status, period_start |-> period_start,
     canceled_at |-> canceled_at, meta_user |-> meta_user]

NoEvent == Event(FALSE, FALSE, "", 0, "", 0, 0, FALSE)

\* A subscription payload is a snapshot the provider took at some time: a
\* canceled subscription carries its cancellation time, which lies in the
\* snapshot's billing period; a deleted event is sent for an ended
\* subscription, so its snapshot is canceled.
SubscriptionPayloads(type, sig) ==
    {e \in {Event(sig, TRUE, type, id, st, p, c, m) :
                id \in 1..MaxSubs, st \in SubStatuses, p \in 1..MaxTime,
                c \in 0..MaxTime, m \in BOOLEAN} :
        /\ e.canceled_at \in {0, e.period_start}
        /\ e.status = "canceled" => e.canceled_at # 0}

Events ==
    {Event(sig, TRUE, "checkout.session.completed", id, "complete", 0, 0, FALSE) :
        sig \in BOOLEAN, id \in 1..MaxSessions}
    \cup {Event(sig, TRUE, "customer.subscription.created", id, "active", 1, 0, FALSE) :
        sig \in BOOLEAN, id \in 1..MaxSubs}
    \cup SubscriptionPayloads("customer.subscription.updated", TRUE)
    \cup {e \in SubscriptionPayloads("customer.subscription.deleted", TRUE) :
                e.status = "canceled"}
    \cup {Event(FALSE, TRUE, "customer.subscription.updated", 1, "canceled", 1, 1, TRUE)}
    \cup {Event(TRUE, TRUE, "invoice.paid", 1, "", 0, 0, FALSE)}
    \cup {Event(TRUE, FALSE, "", 0, "", 0, 0, FALSE)}

\* What the collaborators answer during one delivery.
Outcome(retrieve_ok, plan_id, user, price_ok, mail) ==
    [retrieve_ok |-> retrieve_ok, plan_id |-> plan_id, user |-> user,
     price_ok |-> price_ok, mail |-> mail]

AllOk == Outcome(TRUE, TRUE, "found", TRUE, "202")

Outcomes(type) ==
    IF type = "checkout.session.completed"
    THEN {Outcome(r, TRUE, "found", TRUE, "202") : r \in BOOLEAN}
    ELSE IF type = "customer.subscription.created"
    THEN {AllOk,
          Outcome(FALSE, TRUE, "found", TRUE, "202"),
          Outcome(TRUE, FALSE, "found", TRUE, "202"),
          Outcome(TRUE, TRUE, "none", TRUE, "202"),
          Outcome(TRUE, TRUE, "raise", TRUE, "202"),
          Outcome(TRUE, TRUE, "found", FALSE, "202"),
          Outcome(TRUE, TRUE, "found", TRUE, "other"),
          Outcome(TRUE, TRUE, "found", TRUE, "raise")}
    ELSE {AllOk}

\* what `last` records of a request
Served(op, event, x, code, router, handler, raised, fetched) ==
    [op |-> op, event |-> event, x |-> x, code |-> code, router |-> router,
     handler |-> handler, raised |-> raised, fetched |-> fetched]

\* A worker's position in a request it has not finished.  NoSubscription is
\* the handler's local `subscription` before Subscription.retrieve returned.
NoSubscription ==
    [customer |-> 0, status |-> "", period_start |-> 0, created |-> 0, price_id |-> ""]

IdleCreated ==
    [pc |-> "idle", event |-> NoEvent, x |-> AllOk, subscription |-> NoSubscription]

IdleCheckout ==
    [pc |-> "idle", user |-> "", priceId |-> "", customer |-> 0, session_id |-> 0,
     insert_ok |-> FALSE]

NoWrites == [prev |-> "", cur |-> ""]

\* -------------------------------------------------------------------- Init
Init ==
    /\ checkout_sessions = <<>>
    /\ user_subscriptions = <<>>
    /\ sub_id_unique \in BOOLEAN
    /\ emails = <<>>
    /\ prov_customers = 0
    /\ prov_sessions = <<>>
    /\ prov_subs = <<>>
    /\ last = Served("init", NoEvent, AllOk, 0, FALSE, "none", FALSE, "")
    /\ inflight = [created |-> IdleCreated, checkout |-> IdleCheckout]
    /\ landed = [k \in 1..MaxSubs |-> NoWrites]
    /\ redelivery = [k \in 1..MaxSubs |-> "none"]
    /\ newsletter_subscribers = <<>>

\* ------------------------------------------------------------ the endpoint
\* A correctly signed event is one the provider sent: it names an object the
\* provider holds, a completed-event a session that is complete, a canceled
\* snapshot a subscription that is canceled (both states are final).  An
\* event that fails verification can say anything.
Sent(e, psessions, psubs) ==
    (e.sig_valid /\ e.decodable) =>
        /\ e.type = "checkout.session.completed" =>
              e.id \in 1..Len(psessions) /\ psessions[e.id].status = "complete"
        /\ e.type \in {"customer.subscription.created", "customer.subscription.updated",
                       "customer.subscription.deleted"} =>
              /\ e.id \in 1..Len(psubs)
              /\ e.status = "canceled" => psubs[e.id].status = "canceled"

\* stripe_webhook routing the event without verifying its signature
stripe_webhook_unverified(e, x) ==
    /\ Sent(e, prov_sessions, prov_subs)
    /\ e.type = "customer.subscription.created" => Len(user_subscriptions) < MaxSubRows
    /\ LET r == webhook_router(e, checkout_sessions, user_subscriptions,
                               sub_id_unique, emails, prov_sessions, prov_subs, x)
       IN /\ checkout_sessions' = r.cs
          /\ user_subscriptions' = r.us
          /\ emails' = r.mails
          /\ last' = Served("webhook", e, x, IF r.raised THEN 400 ELSE 200,
                            TRUE, HandlerOf(e.type), r.raised, r.fetched)
    /\ UNCHANGED <<sub_id_unique, newsletter_subscribers, prov_customers, prov_sessions, prov_subs>>

\* stripe_webhook acknowledging a delivery whose handler raised
stripe_webhook_acknowledging(e, x) ==
    /\ Sent(e, prov_sessions, prov_subs)
    /\ e.type = "customer.subscription.created" => Len(user_subscriptions) < MaxSubRows
    /\ IF ~e.sig_valid \/ ~e.decodable
       THEN /\ last' = Served("webhook", e, x, 400, FALSE, "none", FALSE, "")
            /\ UNCHANGED <<checkout_sessions, user_subscriptions, emails>>
       ELSE LET r == webhook_router(e, checkout_sessions, user_subscriptions,
                                    sub_id_unique, emails, prov_sessions, prov_subs, x)
            IN /\ checkout_sessions' = r.cs
               /\ user_subscriptions' = r.us
               /\ emails' = r.mails
               /\ last' = Served("webhook", e, x, 200,
                                 TRUE, HandlerOf(e.type), r.raised, r.fetched)
    /\ UNCHANGED <<sub_id_unique, newsletter_subscribers, prov_customers, prov_sessions, prov_subs>>

\* stripe_webhook: POST /api/v1/webhook-stripe
stripe_webhook(e, x) ==
    /\ Sent(e, prov_sessions, prov_subs)
    /\ e.type = "customer.subscription.created" => Len(user_subscriptions) < MaxSubRows
    /\ IF ~e.sig_valid \/ ~e.decodable
       THEN /\ last' = Served("webhook", e, x, 400, FALSE, "none", FALSE, "")
            /\ UNCHANGED <<checkout_sessions, user_subscriptions, emails>>
       ELSE LET r == webhook_router(e, checkout_sessions, user_subscriptions,
                                    sub_id_unique, emails, prov_sessions, prov_subs, x)
            IN /\ checkout_sessions' = r.cs
               /\ user_subscriptions' = r.us
               /\ emails' = r.mails
               /\ last' = Served("webhook", e, x, IF r.raised THEN 400 ELSE 200,
                                 TRUE, HandlerOf(e.type), r.raised, r.fetched)
    /\ UNCHANGED <<sub_id_unique, newsletter_subscribers, prov_customers, prov_sessions, prov_subs>>

Deliver ==
    /\ \E e \in Events : \E x \in Outcomes(e.type) : stripe_webhook(e, x)
    /\ UNCHANGED worker_vars

\* create_stripe_checkout_session behind POST /api/v1/create-checkout.
\* failed names the first call that fails: "price" (Price.list/retrieve),
\* "customer" (Customer.create), "session" (Session.create), "insert"
\* (insert_checkout_session), or "none".
CheckoutStages == {"price", "customer", "session", "insert", "none"}

create_stripe_checkout_session(user, priceId, failed) ==
    /\ prov_customers < MaxCustomers
    /\ Len(prov_sessions) < MaxSessions
    /\ LET customer == prov_customers + 1
           session_id == Len(prov_sessions) + 1
       IN
       /\ prov_customers' = IF failed \in {"price", "customer"} THEN prov_customers
                            ELSE customer
       /\ prov_sessions' = IF failed \in {"price", "customer", "session"} THEN prov_sessions
                           ELSE Append(prov_sessions, [customer |-> customer, status |-> "open"])
       /\ checkout_sessions' = IF failed = "none"
                               THEN insert_checkout_session(checkout_sessions, session_id,
                                                            user, customer, priceId)
                               ELSE checkout_sessions
       /\ last' = Served("checkout", NoEvent, AllOk,
                         IF failed = "none" THEN 200 ELSE IF failed = "insert" THEN 500 ELSE 400,
                         FALSE, "none", failed # "none", "")
    /\ UNCHANGED <<user_subscriptions, sub_id_unique, newsletter_subscribers, emails, prov_subs>>

CreateCheckout ==
    /\ \E user \in Users, priceId \in Prices, failed \in CheckoutStages :
          create_stripe_checkout_session(user, priceId, failed)
    /\ UNCHANGED worker_vars

\* ------------------------------------------------ the billing provider side
ProviderStep == Served("provider", NoEvent, AllOk, 0, FALSE, "none", FALSE, "")

\* the customer pays: the provider's session becomes complete
ProviderCompleteSession ==
    \E s \in 1..Len(prov_sessions) :
        /\ prov_sessions[s].status = "open"
        /\ prov_sessions' = [prov_sessions EXCEPT ![s].status = "complete"]
        /\ last' = ProviderStep
        /\ UNCHANGED <<checkout_sessions, user_subscriptions, sub_id_unique, newsletter_subscribers, emails,
                       prov_customers, prov_subs, inflight, landed, redelivery>>

\* a subscription starts for one of the provider's customers
ProviderCreateSubscription ==
    \E c \in 1..prov_customers, price \in Prices :
        /\ Len(prov_subs) < MaxSubs
        /\ prov_subs' = Append(prov_subs, [customer |-> c, status |-> "active",
                                           period_start |-> 1, created |-> 1,
                                           price_id |-> price])
        /\ last' = ProviderStep
        /\ UNCHANGED <<checkout_sessions, user_subscriptions, sub_id_unique, newsletter_subscribers, emails,
                       prov_customers, prov_sessions, inflight, landed, redelivery>>

\* a subscription is cancelled
ProviderCancel ==
    \E k \in 1..Len(prov_subs) :
        /\ prov_subs[k].status = "active"
        /\ prov_subs' = [prov_subs EXCEPT ![k].status = "canceled"]
        /\ last' = ProviderStep
        /\ UNCHANGED <<checkout_sessions, user_subscriptions, sub_id_unique, newsletter_subscribers, emails,
                       prov_customers, prov_sessions, inflight, landed, redelivery>>

Next ==
    \/ Deliver
    \/ CreateCheckout
    \/ ProviderCompleteSession
    \/ ProviderCreateSubscription
    \/ ProviderCancel

Spec == Init /\ [][Next]_vars

\* ------------------------------------------- handlers on several workers
\* With more than one worker process a created delivery is served while
\* other deliveries are: handle_subscription_created is taken one store or
\* provider call at a time, and updated and deleted deliveries (one store
\* statement each) land between its calls.  insert_user_subscription's own lookup is
\* taken together with its insert: checkout_sessions rows are never removed,
\* so the lookup answers the same at either moment.
Answered(e, x, raised, fetched) ==
    Served("webhook", e, x, IF raised THEN 400 ELSE 200, TRUE,
           "handle_subscription_created", raised, fetched)

\* a store statement for subscription_id k wrote status
Landed(log, k, status) == [log EXCEPT ![k] = [prev |-> @.cur, cur |-> status]]

\* stripe_webhook up to stripe.Subscription.retrieve and the plan_id read
CreatedRetrieve ==
    \E e \in Events : \E x \in Outcomes(e.type) :
        /\ inflight.created.pc = "idle"
        /\ e.sig_valid /\ e.decodable /\ e.type = "customer.subscription.created"
        /\ Sent(e, prov_sessions, prov_subs)
        /\ Len(user_subscriptions) < MaxSubRows
        /\ IF ~x.retrieve_ok \/ ~x.plan_id
           THEN /\ last' = Answered(e, x, TRUE,
                                    IF x.retrieve_ok THEN prov_subs[e.id].status ELSE "")
                /\ UNCHANGED inflight
           ELSE /\ inflight' = [inflight EXCEPT !.created =
                                   [pc |-> "select", event |-> e, x |-> x,
                                    subscription |-> prov_subs[e.id]]]
                /\ UNCHANGED last
        /\ UNCHANGED <<checkout_sessions, user_subscriptions, sub_id_unique, newsletter_subscribers, emails,
                       prov_customers, prov_sessions, prov_subs, landed, redelivery>>

\* the handler's lookup of checkout_sessions by customer_id
CreatedSelect ==
    LET w == inflight.created IN
    /\ w.pc = "select"
    /\ IF Matching(checkout_sessions, "customer_id", w.subscription.customer) = {}
       THEN /\ last' = Answered(w.event, w.x, TRUE, w.subscription.status)
            /\ inflight' = [inflight EXCEPT !.created = IdleCreated]
       ELSE /\ inflight' = [inflight EXCEPT !.created.pc = "insert"]
            /\ UNCHANGED last
    /\ UNCHANGED <<checkout_sessions, user_subscriptions, sub_id_unique, newsletter_subscribers, emails,
                   prov_customers, prov_sessions, prov_subs, landed, redelivery>>

\* insert_user_subscription with the snapshot Subscription.retrieve returned
CreatedInsert ==
    LET w == inflight.created
        ins == insert_user_subscription(checkout_sessions, user_subscriptions,
                   sub_id_unique, "plan_1", w.subscription.price_id,
                   w.subscription.customer, w.event.id, w.subscription.status,
                   w.subscription.created, w.subscription.period_start,
                   w.subscription.period_start + 1)
    IN
    /\ w.pc = "insert"
    /\ IF ins.raised
       THEN /\ last' = Answered(w.event, w.x, TRUE, w.subscription.status)
            /\ inflight' = [inflight EXCEPT !.created = IdleCreated]
            /\ UNCHANGED <<user_subscriptions, landed>>
       ELSE /\ user_subscriptions' = ins.us
            /\ landed' = Landed(landed, w.event.id, w.subscription.status)
            /\ inflight' = [inflight EXCEPT !.created.pc = "notify"]
            /\ UNCHANGED last
    /\ UNCHANGED <<checkout_sessions, sub_id_unique, newsletter_subscribers, emails,
                   prov_customers, prov_sessions, prov_subs, redelivery>>

\* get_user_by_id, Price/Product.retrieve, the mail, and the answer
CreatedNotify ==
    LET w == inflight.created
        found == Matching(checkout_sessions, "customer_id", w.subscription.customer)
        user_id == checkout_sessions[First(found)].user_id
        mailed == w.x.user = "found" /\ w.x.price_ok
    IN
    /\ w.pc = "notify"
    /\ emails' = IF mailed
                 THEN send_new_subscription_email(emails, EmailOf(user_id), user_id,
                                                  w.event.id, w.x.mail)
                 ELSE emails
    /\ last' = Answered(w.event, w.x, w.x.user = "raise" \/ (w.x.user = "found" /\ ~w.x.price_ok),
                        w.subscription.status)
    /\ inflight' = [inflight EXCEPT !.created = IdleCreated]
    /\ UNCHANGED <<checkout_sessions, user_subscriptions, sub_id_unique, newsletter_subscribers,
                   prov_customers, prov_sessions, prov_subs, landed, redelivery>>

\* an updated or deleted delivery, served whole by another worker: its one
\* store statement is update_user_subscription
DeliverMeanwhile ==
    \E e \in Events : \E x \in Outcomes(e.type) :
        /\ e.sig_valid /\ e.decodable
        /\ e.type \in {"customer.subscription.updated", "customer.subscription.deleted"}
        /\ stripe_webhook(e, x)
        /\ landed' = Landed(landed, e.id, e.status)
        /\ UNCHANGED <<inflight, redelivery>>

NextConcurrent ==
    \/ CreatedRetrieve
    \/ CreatedSelect
    \/ CreatedInsert
    \/ CreatedNotify
    \/ DeliverMeanwhile
    \/ CreateCheckout
    \/ ProviderCreateSubscription
    \/ ProviderCancel

SpecConcurrent == Init /\ [][NextConcurrent]_vars

\* ------------------------------------------------ redelivery by the provider
\* The provider keeps a created event until a delivery of it is answered 2xx
\* and delivers it again after any other answer.  redelivery[k] is "none"
\* before the first delivery, "unmatched" after a 400 given because no
\* CheckoutSession row matched the customer, "failed" after any other 400,
\* "acked" after a 200.  create_stripe_checkout_session is taken in two
\* steps, its provider calls and its insert_checkout_session, so that a
\* delivery can fall between them.  The store has the unique key on
\* subscription_id.
InitKeyed == Init /\ sub_id_unique

\* CheckoutProvider storing the row as soon as the customer exists, before
\* Session.create
CheckoutProvider_early_insert ==
    \E user \in Users, priceId \in Prices, failed \in CheckoutStages :
        /\ inflight.checkout.pc = "idle"
        /\ prov_customers < MaxCustomers
        /\ Len(prov_sessions) < MaxSessions
        /\ LET customer == prov_customers + 1
               session_id == Len(prov_sessions) + 1
           IN
           /\ prov_customers' = IF failed \in {"price", "customer"} THEN prov_customers
                                ELSE customer
           /\ prov_sessions' = IF failed \in {"price", "customer", "session"}
                               THEN prov_sessions
                               ELSE Append(prov_sessions,
                                           [customer |-> customer, status |-> "open"])
           /\ checkout_sessions' = IF failed \in {"price", "customer"} THEN checkout_sessions
                                   ELSE insert_checkout_session(checkout_sessions, session_id,
                                                                user, customer, priceId)
           /\ IF failed \in {"price", "customer", "session"}
              THEN /\ last' = Served("checkout", NoEvent, AllOk, 400, FALSE, "none", TRUE, "")
                   /\ UNCHANGED inflight
              ELSE /\ inflight' = [inflight EXCEPT !.checkout =
                                      [pc |-> "insert", user |-> user, priceId |-> priceId,
                                       customer |-> customer, session_id |-> session_id,
                                       insert_ok |-> FALSE]]
                   /\ UNCHANGED last
        /\ UNCHANGED <<user_subscriptions, sub_id_unique, newsletter_subscribers, emails,
                       prov_subs, landed, redelivery>>

\* Price.list/retrieve, Customer.create and Session.create
CheckoutProvider ==
    \E user \in Users, priceId \in Prices, failed \in CheckoutStages :
        /\ inflight.checkout.pc = "idle"
        /\ prov_customers < MaxCustomers
        /\ Len(prov_sessions) < MaxSessions
        /\ LET customer == prov_customers + 1
               session_id == Len(prov_sessions) + 1
           IN
           /\ prov_customers' = IF failed \in {"price", "customer"} THEN prov_customers
                                ELSE customer
           /\ prov_sessions' = IF failed \in {"price", "customer", "session"}
                               THEN prov_sessions
                               ELSE Append(prov_sessions,
                                           [customer |-> customer, status |-> "open"])
           /\ IF failed \in {"price", "customer", "session"}
              THEN /\ last' = Served("checkout", NoEvent, AllOk, 400, FALSE, "none", TRUE, "")
                   /\ UNCHANGED inflight
              ELSE /\ inflight' = [inflight EXCEPT !.checkout =
                                      [pc |-> "insert", user |-> user, priceId |-> priceId,
                                       customer |-> customer, session_id |-> session_id,
                                       insert_ok |-> failed = "none"]]
                   /\ UNCHANGED last
        /\ UNCHANGED <<checkout_sessions, user_subscriptions, sub_id_unique, newsletter_subscribers, emails,
                       prov_subs, landed, redelivery>>

\* insert_checkout_session and the endpoint's answer
CheckoutInsert ==
    LET w == inflight.checkout IN
    /\ w.pc = "insert"
    /\ checkout_sessions' = IF w.insert_ok
                            THEN insert_checkout_session(checkout_sessions, w.session_id,
                                                         w.user, w.customer, w.priceId)
                            ELSE checkout_sessions
    /\ last' = Served("checkout", NoEvent, AllOk, IF w.insert_ok THEN 200 ELSE 500,
                      FALSE, "none", ~w.insert_ok, "")
    /\ inflight' = [inflight EXCEPT !.checkout = IdleCheckout]
    /\ UNCHANGED <<user_subscriptions, sub_id_unique, newsletter_subscribers, emails, prov_customers,
                   prov_sessions, prov_subs, landed, redelivery>>

\* one delivery of the created event of a subscription not yet acknowledged
DeliverCreated(e, x) ==
    /\ e.sig_valid /\ e.decodable /\ e.type = "customer.subscription.created"
    /\ redelivery[e.id] # "acked"
    /\ stripe_webhook(e, x)
    /\ redelivery' = [redelivery EXCEPT ![e.id] =
          IF last'.code = 200 THEN "acked"
          ELSE IF /\ x.retrieve_ok /\ x.plan_id
                  /\ \A j \in 1..Len(checkout_sessions) :
                        checkout_sessions[j].customer_id # prov_subs[e.id].customer
               THEN "unmatched"
               ELSE "failed"]
    /\ UNCHANGED <<inflight, landed>>

DeliverOrRedeliver ==
    \E e \in Events : \E x \in Outcomes(e.type) : DeliverCreated(e, x)

\* a redelivery during which every collaborator answers
RedeliverHealthy ==
    \E e \in Events :
        /\ e.sig_valid /\ e.decodable /\ e.type = "customer.subscription.created"
        /\ redelivery[e.id] \in {"unmatched", "failed"}
        /\ DeliverCreated(e, AllOk)

NextRedelivery ==
    \/ CheckoutProvider
    \/ CheckoutInsert
    \/ DeliverOrRedeliver
    \/ ProviderCreateSubscription

\* The provider redelivers after every non-2xx answer and collaborator
\* failures are transient; a request that has started is finished.
SpecRedelivery ==
    /\ InitKeyed
    /\ [][NextRedelivery]_vars
    /\ WF_vars(CheckoutInsert)
    /\ SF_vars(RedeliverHealthy)

\* ------------------------------------------------------------ newsletter
\* what a newsletter request carries: the email address, in the id field
NewsletterRequest(email) == Event(FALSE, FALSE, "", email, "", 0, 0, FALSE)

\* insert_newsletter_subscriber: plain insert; the store rejects a second row
\* with the same email ("duplicate key").  Result: [raised, ns].
insert_newsletter_subscriber(ns, email, email_verified) ==
    IF \E i \in 1..Len(ns) : ns[i].email = email
    THEN [raised |-> TRUE, ns |-> ns]
    ELSE [raised |-> FALSE,
          ns |-> Append(ns, [email |-> email, email_verified |-> email_verified])]

\* verify_newsletter_subscriber: update email_verified on rows with that
\* email; returns whether the update returned a row.  Result: [verified, ns].
verify_newsletter_subscriber(ns, email) ==
    [verified |-> \E i \in 1..Len(ns) : ns[i].email = email,
     ns |-> [i \in 1..Len(ns) |->
                IF ns[i].email = email THEN [ns[i] EXCEPT !.email_verified = TRUE]
                ELSE ns[i]]]

\* subscribe_to_newsletter: POST /newsletter/subscribe.  A duplicate key is
\* answered 400; the confirmation mail's outcome does not change the answer.
subscribe_to_newsletter(email, email_verified) ==
    LET r == insert_newsletter_subscriber(newsletter_subscribers, email, email_verified) IN
    /\ newsletter_subscribers' = r.ns
    /\ last' = Served("subscribe", NewsletterRequest(email), AllOk,
                      IF r.raised THEN 400 ELSE 200, FALSE, "none", r.raised, "")
    /\ UNCHANGED <<checkout_sessions, user_subscriptions, sub_id_unique, emails,
                   prov_customers, prov_sessions, prov_subs, inflight, landed, redelivery>>

\* verify_subscriber_email: POST /newsletter/verify.  The HTTPException(404)
\* is raised inside the try block, whose `except Exception` catches it and
\* raises HTTPException(500).
verify_subscriber_email(email, store_ok) ==
    LET r == verify_newsletter_subscriber(newsletter_subscribers, email) IN
    /\ newsletter_subscribers' = IF store_ok THEN r.ns ELSE newsletter_subscribers
    /\ last' = Served("verify", NewsletterRequest(email), AllOk,
                      IF store_ok /\ r.verified THEN 200 ELSE 500,
                      FALSE, "none", ~store_ok \/ ~r.verified, "")
    /\ UNCHANGED <<checkout_sessions, user_subscriptions, sub_id_unique, emails,
                   prov_customers, prov_sessions, prov_subs, inflight, landed, redelivery>>

Subscribe ==
    \E email \in 1..MaxAddresses, email_verified \in BOOLEAN :
        subscribe_to_newsletter(email, email_verified)

Verify ==
    \E email \in 1..MaxAddresses, store_ok \in BOOLEAN :
        verify_subscriber_email(email, store_ok)

NextNewsletter ==
    \/ Subscribe
    \/ Verify

SpecNewsletter == Init /\ [][NextNewsletter]_vars

\* ------------------------------------------- a store with earlier records
\* The store already holds what an earlier checkout and created dispatch
\* wrote: the CheckoutSession cs_0 of user u2 with customer cus_0 and the row
\* of that customer's subscription sub_0.  No event of the run names sub_0.
EarlierSessions == insert_checkout_session(<<>>, 0, "u2", 0, "price_1")

EarlierSubscriptions ==
    insert_user_subscription(EarlierSessions, <<>>, TRUE, "plan_1", "price_1",
                             0, 0, "active", 1, 1, 2).us

InitStored ==
    /\ checkout_sessions = EarlierSessions
    /\ user_subscriptions = EarlierSubscriptions
    /\ sub_id_unique \in BOOLEAN
    /\ emails = <<>>
    /\ prov_customers = 0
    /\ prov_sessions = <<>>
    /\ prov_subs = <<>>
    /\ last = Served("init", NoEvent, AllOk, 0, FALSE, "none", FALSE, "")
    /\ inflight = [created |-> IdleCreated, checkout |-> IdleCheckout]
    /\ landed = [k \in 1..MaxSubs |-> NoWrites]
    /\ redelivery = [k \in 1..MaxSubs |-> "none"]
    /\ newsletter_subscribers = <<>>

SpecStored == InitStored /\ [][Next]_vars

\* ------------------------------------------------------------------ claims
\* the delivery `last` records was verified and decoded, so it was routed
Routed(l, type) ==
    /\ l.op = "webhook"
    /\ l.event.sig_valid
    /\ l.event.decodable
    /\ l.event.type = type

\* C1: a delivery whose signature fails verification is answered 400, neither
\* the router nor a handler runs, and checkout_sessions and user_subscriptions
\* are left as they were.
C1_InvalidSignatureRejected ==
    [][(last'.op = "webhook" /\ ~last'.event.sig_valid) =>
          /\ last'.code = 400
          /\ ~last'.router
          /\ last'.handler = "none"
          /\ checkout_sessions' = checkout_sessions
          /\ user_subscriptions' = user_subscriptions]_vars

\* C1 witness: an unverifiable subscription.updated event naming a stored
\* subscription whose row it would have changed was answered 400.
C1_Witness ==
    /\ last.op = "webhook"
    /\ ~last.event.sig_valid
    /\ last.code = 400
    /\ last.event.type = "customer.subscription.updated"
    /\ \E i \in 1..Len(user_subscriptions) :
          /\ user_subscriptions[i].subscription_id = last.event.id
          /\ user_subscriptions[i].status # last.event.status
          /\ user_subscriptions[i].cancelled_at = NULL

\* C2: a subscription.created event whose customer has no CheckoutSession row
\* fails (the handler raises, the answer is 400) and creates no
\* UserSubscription row.
C2_NoSessionNoSubscription ==
    [][(/\ Routed(last', "customer.subscription.created")
        /\ \A j \in 1..Len(checkout_sessions) :
              checkout_sessions[j].customer_id # prov_subs[last'.event.id].customer) =>
          /\ last'.raised
          /\ last'.code = 400
          /\ user_subscriptions' = user_subscriptions]_vars

\* C2 witness: every collaborator answered, the customer had no session row,
\* and the delivery was refused although another customer's session is stored.
C2_Witness ==
    /\ Routed(last, "customer.subscription.created")
    /\ last.x = AllOk
    /\ checkout_sessions # <<>>
    /\ \A j \in 1..Len(checkout_sessions) :
          checkout_sessions[j].customer_id # prov_subs[last.event.id].customer
    /\ last.code = 400
    /\ user_subscriptions = <<>>

\* C3: every UserSubscription row carries the user_id of a CheckoutSession row
\* with the same customer_id.
C3_UserResolvedThroughSession ==
    \A i \in 1..Len(user_subscriptions) :
        \E j \in 1..Len(checkout_sessions) :
            /\ checkout_sessions[j].customer_id = user_subscriptions[i].customer_id
            /\ checkout_sessions[j].user_id = user_subscriptions[i].user_id

\* C3 witness: a row was inserted for user u2 while the provider also holds a
\* customer without any session row.
C3_Witness ==
    /\ Routed(last, "customer.subscription.created")
    /\ last.code = 200
    /\ prov_customers > Len(checkout_sessions)
    /\ \E i \in 1..Len(user_subscriptions) : user_subscriptions[i].user_id = "u2"

\* C4: after the same subscription.created event was processed twice, with
\* its CheckoutSession present both times, user_subscriptions holds at most
\* one row with that subscription_id.
C4_ReplayKeepsOneRow ==
    \A i, j \in 1..Len(user_subscriptions) :
        user_subscriptions[i].subscription_id = user_subscriptions[j].subscription_id
            => i = j

\* C5: a subscription.updated event whose subscription_id has no row is
\* processed without error (the handler returns, the answer is 200) and
\* creates no row.
C5_UpdateOfUnknownIsNoOp ==
    [][(/\ Routed(last', "customer.subscription.updated")
        /\ \A i \in 1..Len(user_subscriptions) :
              user_subscriptions[i].subscription_id # last'.event.id) =>
          /\ ~last'.raised
          /\ last'.code = 200
          /\ user_subscriptions' = user_subscriptions]_vars

\* C6: after a checkout.session.completed event was processed, every
\* CheckoutSession row with the event's session_id holds the status the
\* provider reported when the handler re-fetched the session.
C6_StoredStatusIsProviderStatus ==
    (Routed(last, "checkout.session.completed") /\ last.fetched # "") =>
        /\ last.fetched = prov_sessions[last.event.id].status
        /\ \A j \in 1..Len(checkout_sessions) :
              checkout_sessions[j].session_id = last.event.id
                  => checkout_sessions[j].status = last.fetched

\* C6 witness: the event named a stored session and its row now reads the
\* provider's "complete".
C6_Witness ==
    /\ Routed(last, "checkout.session.completed")
    /\ last.code = 200
    /\ last.fetched = "complete"
    /\ \E j \in 1..Len(checkout_sessions) :
          /\ checkout_sessions[j].session_id = last.event.id
          /\ checkout_sessions[j].status = "complete"

\* C7: each subscription_id that has a UserSubscription row got exactly one
\* subscription-confirmed email: never none, never more than one.
C7_ExactlyOneEmailPerSubscription ==
    \A i \in 1..Len(user_subscriptions) :
        Cardinality({m \in 1..Len(emails) :
                        emails[m].for_sub = user_subscriptions[i].subscription_id}) = 1

\* C8: from a store holding only CheckoutSession {cs_1, u1, cus_1, price_1}
\* and no subscriptions, one subscription.created event for sub_1 on cus_1,
\* provider status active, every collaborator answering, ends with exactly
\* one row {sub_1, u1, active} and exactly one mail, sent to u1's address.
C8_EndToEndCreated ==
    [][(/\ Len(checkout_sessions) = 1
        /\ checkout_sessions[1].session_id = 1
        /\ checkout_sessions[1].user_id = "u1"
        /\ checkout_sessions[1].customer_id = 1
        /\ checkout_sessions[1].price_id = "price_1"
        /\ user_subscriptions = <<>>
        /\ emails = <<>>
        /\ Routed(last', "customer.subscription.created")
        /\ last'.event.id = 1
        /\ last'.x = AllOk
        /\ prov_subs[1].customer = 1
        /\ prov_subs[1].status = "active") =>
          /\ Len(user_subscriptions') = 1
          /\ user_subscriptions'[1].subscription_id = 1
          /\ user_subscriptions'[1].user_id = "u1"
          /\ user_subscriptions'[1].status = "active"
          /\ Len(emails') = 1
          /\ emails'[1].to = [addr |-> "u1", domain |-> "example.com"]
          /\ last'.code = 200]_vars

\* C8 witness: the scenario ran: one session of u1, one active subscription
\* at the provider, one row and one mail after the first created delivery.
C8_Witness ==
    /\ Routed(last, "customer.subscription.created")
    /\ last.x = AllOk
    /\ last.code = 200
    /\ Len(checkout_sessions) = 1
    /\ checkout_sessions[1].user_id = "u1"
    /\ prov_subs[1].status = "active"
    /\ Len(user_subscriptions) = 1
    /\ Len(emails) = 1

\* C9: a subscription.deleted event with canceled_at set, processed when the
\* subscription's row exists, sets the row's status to the payload's status
\* and its cancelled_at to a non-null value, and leaves the number of rows
\* unchanged.
C9_DeletedUpdatesInPlace ==
    [][(/\ Routed(last', "customer.subscription.deleted")
        /\ last'.event.canceled_at # 0
        /\ \E i \in 1..Len(user_subscriptions) :
              user_subscriptions[i].subscription_id = last'.event.id) =>
          /\ Len(user_subscriptions') = Len(user_subscriptions)
          /\ \A i \in 1..Len(user_subscriptions) :
                user_subscriptions[i].subscription_id = last'.event.id =>
                    /\ user_subscriptions'[i].status = last'.event.status
                    /\ user_subscriptions'[i].cancelled_at # NULL]_vars

\* C9 witness: a deleted event reached a stored row, which now reads canceled
\* with the payload's cancellation time.
C9_Witness ==
    /\ Routed(last, "customer.subscription.deleted")
    /\ last.event.canceled_at # 0
    /\ \E i \in 1..Len(user_subscriptions) :
          /\ user_subscriptions[i].subscription_id = last.event.id
          /\ user_subscriptions[i].status = "canceled"
          /\ user_subscriptions[i].cancelled_at = <<last.event.canceled_at>>

\* C10: the endpoint answers 200 exactly when the signature verified, the
\* event decoded and the routed handler returned without raising; every
\* other delivery is answered 400.
C10_AcknowledgedIffHandled ==
    last.op = "webhook" =>
        /\ last.code \in {200, 400}
        /\ last.code = 200 <=>
              (last.event.sig_valid /\ last.event.decodable /\ ~last.raised)
        /\ last.raised => last.router

\* C10 witness: a verified delivery was routed, its handler raised after
\* writing the store, and the answer was 400.
C10_Witness ==
    /\ Routed(last, "customer.subscription.updated")
    /\ last.raised
    /\ last.code = 400
    /\ \E i \in 1..Len(user_subscriptions) :
          /\ user_subscriptions[i].subscription_id = last.event.id
          /\ user_subscriptions[i].cancelled_at # NULL

\* C11: a correctly signed event whose type is none of the four known types
\* reaches the router, which invokes no handler and returns normally: the
\* answer is 200 and no stored record changes; an event of a known type
\* invokes exactly the one handler bound to its type.
C11_UnknownTypeIgnored ==
    [][(last'.op = "webhook" /\ last'.event.sig_valid /\ last'.event.decodable) =>
          IF last'.event.type \in {"checkout.session.completed",
                                   "customer.subscription.created",
                                   "customer.subscription.updated",
                                   "customer.subscription.deleted"}
          THEN last'.handler =
                  CASE last'.event.type = "checkout.session.completed" ->
                          "handle_checkout_completed"
                    [] last'.event.type = "customer.subscription.created" ->
                          "handle_subscription_created"
                    [] OTHER -> "handle_subscription_updated"
          ELSE /\ last'.router
               /\ last'.handler = "none"
               /\ ~last'.raised
               /\ last'.code = 200
               /\ checkout_sessions' = checkout_sessions
               /\ user_subscriptions' = user_subscriptions
               /\ emails' = emails]_vars

\* C11 witness: a signed invoice.paid event naming a stored subscription was
\* acknowledged with no handler invoked.
C11_Witness ==
    /\ last.op = "webhook"
    /\ last.event.sig_valid
    /\ last.event.decodable
    /\ last.event.type = "invoice.paid"
    /\ last.handler = "none"
    /\ last.code = 200
    /\ \E i \in 1..Len(user_subscriptions) :
          user_subscriptions[i].subscription_id = last.event.id

\* C12: when the confirmation mail of a created subscription is not accepted
\* (the mail service answers something other than 202, or the send fails),
\* the row inserted in the same dispatch stays, the handler does not raise
\* and the delivery is answered 200.
C12_MailFailureIsSoft ==
    [][(/\ Routed(last', "customer.subscription.created")
        /\ last'.x.retrieve_ok /\ last'.x.plan_id
        /\ last'.x.user = "found" /\ last'.x.price_ok
        /\ last'.x.mail # "202"
        /\ \E j \in 1..Len(checkout_sessions) :
              checkout_sessions[j].customer_id = prov_subs[last'.event.id].customer
        /\ ~(sub_id_unique /\ \E i \in 1..Len(user_subscriptions) :
                user_subscriptions[i].subscription_id = last'.event.id)) =>
          /\ ~last'.raised
          /\ last'.code = 200
          /\ Len(user_subscriptions') = Len(user_subscriptions) + 1
          /\ user_subscriptions'[Len(user_subscriptions')].subscription_id = last'.event.id
          /\ emails' = emails]_vars

\* C12 witness: a created delivery whose mail send failed was acknowledged,
\* its row is stored and no mail exists.
C12_Witness ==
    /\ Routed(last, "customer.subscription.created")
    /\ last.x.user = "found" /\ last.x.price_ok
    /\ last.x.mail # "202"
    /\ last.code = 200
    /\ emails = <<>>
    /\ \E i \in 1..Len(user_subscriptions) :
          user_subscriptions[i].subscription_id = last.event.id

\* C13: when the identity provider returns no user for the resolved user_id,
\* handle_subscription_created returns without raising: the inserted row
\* stays, no mail is sent and the delivery is answered 200.
C13_MissingUserIsSoft ==
    [][(/\ Routed(last', "customer.subscription.created")
        /\ last'.x.retrieve_ok /\ last'.x.plan_id
        /\ last'.x.user = "none"
        /\ \E j \in 1..Len(checkout_sessions) :
              checkout_sessions[j].customer_id = prov_subs[last'.event.id].customer
        /\ ~(sub_id_unique /\ \E i \in 1..Len(user_subscriptions) :
                user_subscriptions[i].subscription_id = last'.event.id)) =>
          /\ ~last'.raised
          /\ last'.code = 200
          /\ Len(user_subscriptions') = Len(user_subscriptions) + 1
          /\ user_subscriptions'[Len(user_subscriptions')].subscription_id = last'.event.id
          /\ emails' = emails]_vars

\* C13 witness: a created delivery whose user lookup returned nothing was
\* acknowledged although the mail service would have accepted the mail; the
\* row is stored and no mail exists.
C13_Witness ==
    /\ Routed(last, "customer.subscription.created")
    /\ last.x.user = "none"
    /\ last.x.price_ok /\ last.x.mail = "202"
    /\ last.code = 200
    /\ emails = <<>>
    /\ \E i \in 1..Len(user_subscriptions) :
          user_subscriptions[i].subscription_id = last.event.id

\* C14: from every state, a customer.subscription.deleted event and a
\* customer.subscription.updated event carrying the same subscription payload
\* leave the same stored records and mails and have the same outcome.
C14_DeletedSameAsUpdated ==
    \A e \in SubscriptionPayloads("customer.subscription.updated", TRUE) :
        \A x \in Outcomes("customer.subscription.updated") :
            LET d == [e EXCEPT !.type = "customer.subscription.deleted"]
                ru == webhook_router(e, checkout_sessions, user_subscriptions,
                                     sub_id_unique, emails, prov_sessions, prov_subs, x)
                rd == webhook_router(d, checkout_sessions, user_subscriptions,
                                     sub_id_unique, emails, prov_sessions, prov_subs, x)
            IN /\ rd.cs = ru.cs
               /\ rd.us = ru.us
               /\ rd.mails = ru.mails
               /\ rd.raised = ru.raised

\* C14 witness: a deleted event whose payload lacks metadata.user_id was
\* answered 400 after it had changed the status and cancelled_at of the row.
C14_Witness ==
    /\ Routed(last, "customer.subscription.deleted")
    /\ last.raised
    /\ \E i \in 1..Len(user_subscriptions) :
          /\ user_subscriptions[i].subscription_id = last.event.id
          /\ user_subscriptions[i].status = "canceled"
          /\ user_subscriptions[i].cancelled_at = isoformat(last.event.canceled_at)

\* C15: handle_subscription_updated writes cancelled_at only when the
\* payload's canceled_at is non-null; when it is null the cancelled_at of
\* every matching row is left as it was, while status and both payment dates
\* are written from the payload.
C15_CancelledAtOnlyWhenGiven ==
    [][(Routed(last', "customer.subscription.updated")
        \/ Routed(last', "customer.subscription.deleted")) =>
          /\ Len(user_subscriptions') = Len(user_subscriptions)
          /\ \A i \in 1..Len(user_subscriptions) :
                user_subscriptions[i].subscription_id = last'.event.id =>
                   /\ user_subscriptions'[i].cancelled_at =
                         IF last'.event.canceled_at = 0
                         THEN user_subscriptions[i].cancelled_at
                         ELSE <<last'.event.canceled_at>>
                   /\ user_subscriptions'[i].status = last'.event.status
                   /\ user_subscriptions'[i].last_payment_date =
                         <<last'.event.period_start>>
                   /\ user_subscriptions'[i].next_payment_date =
                         <<last'.event.period_start + 1>>]_vars

\* C15 witness: an updated event with a null canceled_at moved the payment
\* dates of a row to a later period and left the cancelled_at that an earlier
\* event had written.
C15_Witness ==
    /\ Routed(last, "customer.subscription.updated")
    /\ last.event.canceled_at = 0
    /\ last.event.period_start = 2
    /\ \E i \in 1..Len(user_subscriptions) :
          /\ user_subscriptions[i].subscription_id = last.event.id
          /\ user_subscriptions[i].cancelled_at # NULL
          /\ user_subscriptions[i].status = "active"
          /\ user_subscriptions[i].last_payment_date = <<2>>

\* C16: a checkout.session.completed event whose session has no
\* CheckoutSession row is handled without raising once the provider has
\* returned the session: checkout_sessions is left as it was and no row is
\* created.
C16_CompletedUnknownSessionIsNoOp ==
    [][(/\ Routed(last', "checkout.session.completed")
        /\ last'.x.retrieve_ok
        /\ \A j \in 1..Len(checkout_sessions) :
              checkout_sessions[j].session_id # last'.event.id) =>
          /\ ~last'.raised
          /\ last'.code = 200
          /\ checkout_sessions' = checkout_sessions
          /\ user_subscriptions' = user_subscriptions]_vars

\* C16 witness: the provider holds a complete session whose row was never
\* stored, and the completed event for it was acknowledged.
C16_Witness ==
    /\ Routed(last, "checkout.session.completed")
    /\ last.code = 200
    /\ last.fetched = "complete"
    /\ last.event.id \in 1..Len(prov_sessions)
    /\ \A j \in 1..Len(checkout_sessions) :
          checkout_sessions[j].session_id # last.event.id

\* C17: no step removes a UserSubscription row or changes its
\* subscription_id, and a row is added only by handle_subscription_created,
\* one per dispatch; updated and deleted events keep the rows in place.
C17_SubscriptionIdsNeverShrink ==
    [][/\ Len(user_subscriptions') >= Len(user_subscriptions)
       /\ \A i \in 1..Len(user_subscriptions) :
             user_subscriptions'[i].subscription_id = user_subscriptions[i].subscription_id
       /\ Len(user_subscriptions') > Len(user_subscriptions) =>
             /\ Routed(last', "customer.subscription.created")
             /\ Len(user_subscriptions') = Len(user_subscriptions) + 1]_vars

\* C17 witness: a deleted event was handled while two rows of its
\* subscription are stored, and both are still there, canceled.
C17_Witness ==
    /\ Routed(last, "customer.subscription.deleted")
    /\ Len(user_subscriptions) = 2
    /\ \A i \in 1..Len(user_subscriptions) :
          /\ user_subscriptions[i].subscription_id = last.event.id
          /\ user_subscriptions[i].status = "canceled"

\* C19: in handle_subscription_created a row is inserted only after the
\* provider re-fetch succeeded and a CheckoutSession resolved the user; a
\* mail is sent only in a dispatch that inserted the row and whose user
\* lookup and price/product lookup succeeded; so every mail names a
\* subscription that has a row.
C19_CreatedStepsInOrder ==
    [][/\ Len(user_subscriptions') > Len(user_subscriptions) =>
             /\ Routed(last', "customer.subscription.created")
             /\ last'.x.retrieve_ok
             /\ \E j \in 1..Len(checkout_sessions) :
                   /\ checkout_sessions[j].customer_id = prov_subs[last'.event.id].customer
                   /\ user_subscriptions'[Len(user_subscriptions')].customer_id =
                         checkout_sessions[j].customer_id
       /\ Len(emails') > Len(emails) =>
             /\ Routed(last', "customer.subscription.created")
             /\ Len(user_subscriptions') = Len(user_subscriptions) + 1
             /\ user_subscriptions'[Len(user_subscriptions')].subscription_id =
                   emails'[Len(emails')].for_sub
             /\ last'.x.user = "found"
             /\ last'.x.price_ok
       /\ \A m \in 1..Len(emails') :
             \E i \in 1..Len(user_subscriptions') :
                user_subscriptions'[i].subscription_id = emails'[m].for_sub]_vars

\* C19 witness: a redelivered created event was refused on the duplicate
\* subscription_id with every collaborator answering, and the only mail is
\* the one of the first delivery.
C19_Witness ==
    /\ Routed(last, "customer.subscription.created")
    /\ last.x = AllOk
    /\ last.raised
    /\ Len(emails) = 1
    /\ \E i \in 1..Len(user_subscriptions) :
          user_subscriptions[i].subscription_id = emails[1].for_sub

\* C18: a created handler and updated/deleted handlers of the same
\* subscription_id run on different workers without mutual exclusion; in
\* every interleaving, once no handler is part-way through, the status of
\* the subscription's row is the status the last store write to land
\* carried, whatever order the provider produced the events in.
C18_LastWriteWins ==
    inflight.created.pc = "idle" =>
        \A k \in 1..MaxSubs :
            \A i \in 1..Len(user_subscriptions) :
                (/\ user_subscriptions[i].subscription_id = k
                 /\ \A j \in 1..Len(user_subscriptions) :
                       user_subscriptions[j].subscription_id = k => j = i) =>
                    user_subscriptions[i].status = landed[k].cur

\* C18 witness: the created handler fetched an active subscription, the
\* provider cancelled it and the canceled snapshot was written while the
\* handler had not inserted yet; the insert landed last, so the row says
\* active while the provider says canceled.
C18_Witness ==
    /\ inflight.created.pc = "idle"
    /\ Len(user_subscriptions) = 1
    /\ user_subscriptions[1].status = "active"
    /\ landed[user_subscriptions[1].subscription_id] = [prev |-> "canceled", cur |-> "active"]
    /\ prov_subs[user_subscriptions[1].subscription_id].status = "canceled"

\* C20: when a created delivery was answered 400 because no CheckoutSession
\* row matched its customer and the provider redelivers after every non-2xx
\* answer, then once the matching CheckoutSession row is stored some
\* redelivery eventually leaves the UserSubscription row stored and is
\* answered 200.
C20_RedeliveryEventuallyAcknowledged ==
    \A k \in 1..MaxSubs :
        (/\ redelivery[k] = "unmatched"
         /\ \E j \in 1..Len(checkout_sessions) :
               checkout_sessions[j].customer_id = prov_subs[k].customer)
        ~> (/\ redelivery[k] = "acked"
            /\ \E i \in 1..Len(user_subscriptions) :
                  user_subscriptions[i].subscription_id = k)

\* C22: POST /newsletter/verify for an email that has no
\* newsletter_subscribers row is answered 404 and changes no row.
C22_VerifyUnknownIs404 ==
    [][(/\ last'.op = "verify"
        /\ \A i \in 1..Len(newsletter_subscribers) :
              newsletter_subscribers[i].email # last'.event.id) =>
          /\ last'.code = 404
          /\ newsletter_subscribers' = newsletter_subscribers]_vars

\* C21: once the customer.subscription.deleted event of a subscription
\* (canceled_at set) and its customer.subscription.created event have both
\* been processed, in either order, the subscription's row has a non-null
\* cancelled_at.  Deleted after created: every row of the subscription has
\* it after the deleted delivery.  Created right after deleted, both
\* acknowledged: the row the created delivery inserts has it.
C21_CancelledInEitherOrder ==
    [][/\ (Routed(last', "customer.subscription.deleted")
           /\ last'.event.canceled_at # 0) =>
              \A i \in 1..Len(user_subscriptions') :
                 user_subscriptions'[i].subscription_id = last'.event.id =>
                    user_subscriptions'[i].cancelled_at # NULL
       /\ (/\ Routed(last, "customer.subscription.deleted")
           /\ last.event.canceled_at # 0
           /\ Routed(last', "customer.subscription.created")
           /\ last'.event.id = last.event.id
           /\ last.code = 200 /\ last'.code = 200
           /\ Len(user_subscriptions') > Len(user_subscriptions)) =>
              user_subscriptions'[Len(user_subscriptions')].cancelled_at # NULL]_vars

\* C23: when a step of handle_subscription_created after the insert raises
\* (the user lookup, or the price or product retrieval), the row inserted in
\* the same dispatch stays, no mail is sent and the delivery is answered
\* 400, so the event the provider redelivers finds its row stored.
C23_RaiseAfterInsertKeepsRow ==
    [][(/\ Routed(last', "customer.subscription.created")
        /\ last'.x.retrieve_ok /\ last'.x.plan_id
        /\ (last'.x.user = "raise" \/ (last'.x.user = "found" /\ ~last'.x.price_ok))
        /\ \E j \in 1..Len(checkout_sessions) :
              checkout_sessions[j].customer_id = prov_subs[last'.event.id].customer
        /\ ~(sub_id_unique /\ \E i \in 1..Len(user_subscriptions) :
                user_subscriptions[i].subscription_id = last'.event.id)) =>
          /\ last'.raised
          /\ last'.code = 400
          /\ Len(user_subscriptions') = Len(user_subscriptions) + 1
          /\ user_subscriptions'[Len(user_subscriptions')].subscription_id = last'.event.id
          /\ emails' = emails]_vars

\* C23 witness: the user lookup raised after the insert; the delivery was
\* answered 400, the row is stored and no mail exists.
C23_Witness ==
    /\ Routed(last, "customer.subscription.created")
    /\ last.x.user = "raise"
    /\ last.code = 400
    /\ emails = <<>>
    /\ Len(user_subscriptions) = 1
    /\ user_subscriptions[1].subscription_id = last.event.id

\* C24: a row's cancelled_at, once non-null, is never null again, whatever
\* is delivered afterwards.
C24_CancelledAtStays ==
    [][\A i \in 1..Len(user_subscriptions) :
          user_subscriptions[i].cancelled_at # NULL =>
             /\ i <= Len(user_subscriptions')
             /\ user_subscriptions'[i].cancelled_at # NULL]_vars

\* C24 witness: a row cancelled at time 2 was then written by an updated
\* event of the earlier period that reports the subscription active with a
\* null canceled_at, and still carries its cancelled_at.
C24_Witness ==
    /\ Routed(last, "customer.subscription.updated")
    /\ last.event.canceled_at = 0
    /\ last.event.status = "active"
    /\ last.event.period_start = 1
    /\ \E i \in 1..Len(user_subscriptions) :
          /\ user_subscriptions[i].subscription_id = last.event.id
          /\ user_subscriptions[i].cancelled_at = <<2>>
          /\ user_subscriptions[i].status = "active"

\* C25: handle_subscription_updated changes at most status,
\* last_payment_date, next_payment_date and cancelled_at of the rows whose
\* subscription_id matches; their user_id, plan_id, price_id, customer_id
\* and subscribed_at, every other UserSubscription row and every
\* CheckoutSession row are as before.
C25_UpdatedFrame ==
    [][(Routed(last', "customer.subscription.updated")
        \/ Routed(last', "customer.subscription.deleted")) =>
          /\ checkout_sessions' = checkout_sessions
          /\ Len(user_subscriptions') = Len(user_subscriptions)
          /\ \A i \in 1..Len(user_subscriptions) :
                IF user_subscriptions[i].subscription_id = last'.event.id
                THEN /\ user_subscriptions'[i].subscription_id = user_subscriptions[i].subscription_id
                     /\ user_subscriptions'[i].user_id = user_subscriptions[i].user_id
                     /\ user_subscriptions'[i].plan_id = user_subscriptions[i].plan_id
                     /\ user_subscriptions'[i].price_id = user_subscriptions[i].price_id
                     /\ user_subscriptions'[i].customer_id = user_subscriptions[i].customer_id
                     /\ user_subscriptions'[i].subscribed_at = user_subscriptions[i].subscribed_at
                ELSE user_subscriptions'[i] = user_subscriptions[i]]_vars

\* C25 witness: a deleted event of sub_1 was handled while the row of sub_0
\* is stored next to it; the row of sub_1 is canceled, the row of sub_0 is
\* still active without a cancelled_at.
C25_Witness ==
    /\ Routed(last, "customer.subscription.deleted")
    /\ Len(user_subscriptions) = 2
    /\ \E i, j \in 1..2 :
          /\ user_subscriptions[i].subscription_id = last.event.id
          /\ user_subscriptions[i].status = "canceled"
          /\ user_subscriptions[i].cancelled_at # NULL
          /\ user_subscriptions[j].subscription_id # last.event.id
          /\ user_subscriptions[j].status = "active"
          /\ user_subscriptions[j].cancelled_at = NULL

\* C26: create_stripe_checkout_session inserts a CheckoutSession row only
\* after the provider's checkout session was created: the row is pending and
\* carries the user of the call, the customer the provider created for this
\* call and that session's id, and the call is answered 200; when a provider
\* call fails no row is inserted and the endpoint answers 400.
C26_CheckoutRowAfterProviderSession ==
    [][/\ checkout_sessions' # checkout_sessions =>
             LET w == inflight.checkout
                 row == checkout_sessions'[Len(checkout_sessions')]
             IN /\ w.pc = "insert"
                /\ Len(checkout_sessions') = Len(checkout_sessions) + 1
                /\ SubSeq(checkout_sessions', 1, Len(checkout_sessions)) = checkout_sessions
                /\ row.status = "pending"
                /\ row.user_id = w.user
                /\ row.customer_id = w.customer
                /\ row.session_id = w.session_id
                /\ w.session_id \in 1..Len(prov_sessions)
                /\ prov_sessions[w.session_id].customer = w.customer
                /\ last'.op = "checkout"
                /\ last'.code = 200
       /\ (inflight.checkout.pc = "idle" /\ inflight'.checkout.pc = "insert") =>
             /\ prov_customers' = prov_customers + 1
             /\ inflight'.checkout.customer = prov_customers'
             /\ inflight'.checkout.session_id = Len(prov_sessions')
             /\ Len(prov_sessions') = Len(prov_sessions) + 1
       /\ (/\ inflight.checkout.pc = "idle" /\ inflight'.checkout.pc = "idle"
           /\ last'.op = "checkout") =>
             /\ checkout_sessions' = checkout_sessions
             /\ Len(prov_sessions') = Len(prov_sessions)
             /\ last'.code = 400]_vars

\* C26 witness: a first call failed at Session.create after its customer
\* was created; a second call was answered 200 and its row carries the
\* second customer, the one the provider's session belongs to.
C26_Witness ==
    /\ last.op = "checkout"
    /\ last.code = 200
    /\ inflight.checkout.pc = "idle"
    /\ prov_customers = 2
    /\ \E j \in 1..Len(checkout_sessions) :
          /\ checkout_sessions[j].status = "pending"
          /\ checkout_sessions[j].customer_id = 2
          /\ checkout_sessions[j].session_id \in 1..Len(prov_sessions)
          /\ prov_sessions[checkout_sessions[j].session_id].customer = 2

====
